---------------------------- MODULE Spec2Model ----------------------------
(***************************************************************************)
(* A model of breakbot's responsive-design analysis: the in-page Element   *)
(* Inspector and analyzeViewport / analyzeResponsiveDesign of              *)
(* src/src/lib/dom-analyzer.ts, the viewport catalog of                    *)
(* src/src/lib/viewports.ts, and the test_responsive handler of            *)
(* src/src/index.ts (summary use, deduplication, fix suggestions).         *)
(*                                                                         *)
(* Lengths are integers in units of 1/Scale px, so that Math.round is a    *)
(* real conversion.  Texts that the program builds and rewrites            *)
(* (descriptions) are sequences of tokens: every digit and the letters     *)
(* "p", "x", "N" are tokens of their own, a stretch of literal text        *)
(* without digits is one token.  Map objects are sequences of entries in   *)
(* insertion order, which is the order a JavaScript Map iterates in.       *)
(***************************************************************************)
EXTENDS Integers, Sequences, FiniteSets, TLC

(***************************************************************************)
(* Bounds of the model.                                                    *)
(***************************************************************************)
\* how many viewports one run is given at most
NumViewports == 3
\* sub-pixel resolution: lengths are counted in 1/Scale px
Scale == 2

(***************************************************************************)
(* Thresholds of the Element Inspector, in px.                             *)
(***************************************************************************)
OverflowTolerance == 5
HighOverflowExcess == 50
OffscreenLeft == 10
RecommendedTouchSize == 44
DefectTouchSize == 30

Px(n) == n * Scale

(***************************************************************************)
(* Generic helpers on sequences.                                           *)
(***************************************************************************)
Range(s) == {s[k] : k \in 1..Len(s)}

Min(a, b) == IF a < b THEN a ELSE b

\* Array.prototype.slice(0, n)
Slice0(s, n) == SubSeq(s, 1, Min(n, Len(s)))

\* Array.prototype.includes
Includes(s, x) == \E k \in 1..Len(s) : s[k] = x

(***************************************************************************)
(* Numbers and text.                                                       *)
(***************************************************************************)
DigitTokens == <<"0", "1", "2", "3", "4", "5", "6", "7", "8", "9">>

IsDigit(t) == \E k \in 1..Len(DigitTokens) : DigitTokens[k] = t

\* the decimal text of a non-negative integer, as a template literal prints it
RECURSIVE NumberToText(_)
NumberToText(n) ==
    IF n < 10 THEN <<DigitTokens[n + 1]>>
    ELSE NumberToText(n \div 10) \o <<DigitTokens[(n % 10) + 1]>>

\* Math.round of a length given in 1/Scale px: the nearest integer px, halves up
MathRound(h) == (2 * h + Scale) \div (2 * Scale)

\* the length of the run of digits that text t starts with
RECURSIVE DigitRun(_)
DigitRun(t) ==
    IF t # <<>> /\ IsDigit(Head(t)) THEN 1 + DigitRun(Tail(t)) ELSE 0

\* String.prototype.replace(/\d+px/g, 'Npx')
RECURSIVE ReplacePx(_)
ReplacePx(t) ==
    IF t = <<>> THEN <<>>
    ELSE LET d == DigitRun(t) IN
         IF d = 0 THEN <<Head(t)>> \o ReplacePx(Tail(t))
         ELSE IF Len(t) >= d + 2 /\ t[d + 1] = "p" /\ t[d + 2] = "x"
              THEN <<"N", "p", "x">> \o ReplacePx(SubSeq(t, d + 3, Len(t)))
              ELSE SubSeq(t, 1, d) \o ReplacePx(SubSeq(t, d + 1, Len(t)))


\* Array.prototype.join('.') of a list of strings
RECURSIVE JoinDot(_)
JoinDot(parts) ==
    IF parts = <<>> THEN ""
    ELSE IF Len(parts) = 1 THEN parts[1]
    ELSE parts[1] \o "." \o JoinDot(Tail(parts))

(***************************************************************************)
(* The viewport catalog (viewports.ts).                                    *)
(***************************************************************************)
DEFAULT_VIEWPORTS ==
    << [width |-> 320,  height |-> 568,  name |-> "iPhone SE"],
       [width |-> 375,  height |-> 667,  name |-> "iPhone 8"],
       [width |-> 390,  height |-> 844,  name |-> "iPhone 14"],
       [width |-> 480,  height |-> 854,  name |-> "Mobile Large"],
       [width |-> 640,  height |-> 960,  name |-> "sm (Tailwind)"],
       [width |-> 768,  height |-> 1024, name |-> "md (Tailwind)"],
       [width |-> 1024, height |-> 768,  name |-> "lg (Tailwind)"],
       [width |-> 1280, height |-> 800,  name |-> "xl (Tailwind)"],
       [width |-> 1536, height |-> 864,  name |-> "2xl (Tailwind)"] >>

\* (mutant) the boundary widths fall into the band below them
getTailwindBreakpointInclusive(width) ==
    IF width <= 640 THEN "default (mobile)"
    ELSE IF width <= 768 THEN "sm"
    ELSE IF width <= 1024 THEN "md"
    ELSE IF width <= 1280 THEN "lg"
    ELSE IF width <= 1536 THEN "xl"
    ELSE "2xl"

getTailwindBreakpoint(width) ==
    IF width < 640 THEN "default (mobile)"
    ELSE IF width < 768 THEN "sm"
    ELSE IF width < 1024 THEN "md"
    ELSE IF width < 1280 THEN "lg"
    ELSE IF width < 1536 THEN "xl"
    ELSE "2xl"

(***************************************************************************)
(* The Element Inspector: the routine analyzeViewport evaluates inside     *)
(* the page.  An element is a record                                       *)
(*   tagName, id, classes (the class attribute split at white space),      *)
(*   left, top, width, height (its bounding rectangle, in 1/Scale px),     *)
(*   display, visibility, overflow (computed styles),                      *)
(*   scrollWidth, clientWidth (px), role, onclick.                         *)
(* A document is a record innerWidth, scrollWidth, scrollHeight (px),      *)
(* bodyClass, bodyId, elements (document order of 'body *').               *)
(***************************************************************************)
Right(el) == el.left + el.width

\* getSelector(el)
getSelector(el) ==
    IF el.id # "" THEN "#" \o el.id
    ELSE LET classes == JoinDot(Slice0(el.classes, 2)) IN
         IF classes # "" THEN el.tagName \o "." \o classes
         ELSE el.tagName

\* getElementInfo(el)
getElementInfo(el) ==
    [tagName |-> el.tagName, classes |-> el.classes, id |-> el.id,
     rect |-> [x |-> el.left, y |-> el.top,
               width |-> el.width, height |-> el.height]]

\* the elements the scan does not skip
IsVisible(el) ==
    ~(el.display = "none" \/ el.visibility = "hidden" \/ el.width = 0)

InteractiveTags == {"a", "button", "input", "select", "textarea"}

\* el.matches('a, button, input, select, textarea, [role="button"], [onclick]')
isInteractive(el) ==
    el.tagName \in InteractiveTags \/ el.role = "button" \/ el.onclick

TextTags ==
    {"p", "span", "h1", "h2", "h3", "h4", "h5", "h6", "a", "li", "td", "th", "label"}

\* el.matches('p, span, h1, ..., label')
isTextElement(el) == el.tagName \in TextTags

\* (mutant) an excess of exactly the tolerance counts as overflow
OverflowsRightInclusive(el, innerWidth) ==
    Right(el) >= Px(innerWidth) + Px(OverflowTolerance)

\* rect.right > window.innerWidth + 5
OverflowsRight(el, innerWidth) ==
    Right(el) > Px(innerWidth) + Px(OverflowTolerance)

\* rect.right - window.innerWidth > 50 ? 'high' : 'medium'
OverflowSeverity(el, innerWidth) ==
    IF Right(el) - Px(innerWidth) > Px(HighOverflowExcess) THEN "high" ELSE "medium"

OverflowDescription(el, innerWidth) ==
    <<"Element extends ">>
    \o NumberToText(MathRound(Right(el) - Px(innerWidth)))
    \o <<"p", "x", " beyond viewport">>

OverflowIssue(el, innerWidth) ==
    [type |-> "horizontal-overflow",
     description |-> OverflowDescription(el, innerWidth),
     selector |-> getSelector(el),
     severity |-> OverflowSeverity(el, innerWidth),
     element |-> getElementInfo(el),
     suggestedFix |-> "overflow-x-hidden or max-w-full or w-full"]

\* rect.left < -10 && rect.right > 0
IsOffscreenLeft(el) == el.left < -Px(OffscreenLeft) /\ Right(el) > 0

OffscreenIssue(el) ==
    [type |-> "offscreen",
     description |-> <<"Element partially off-screen to the left">>,
     selector |-> getSelector(el),
     severity |-> "medium",
     element |-> getElementInfo(el),
     suggestedFix |-> "Check margin/padding or use relative positioning"]

\* (mutant) a target is small only when both of its sides are
IsSmallTouchTargetBothSides(el) ==
    isInteractive(el)
    /\ (el.width < Px(RecommendedTouchSize) /\ el.height < Px(RecommendedTouchSize))

\* isInteractive && (rect.width < 44 || rect.height < 44)
IsSmallTouchTarget(el) ==
    isInteractive(el)
    /\ (el.width < Px(RecommendedTouchSize) \/ el.height < Px(RecommendedTouchSize))

\* rect.width < 30 || rect.height < 30
IsDefectTouchTarget(el) ==
    el.width < Px(DefectTouchSize) \/ el.height < Px(DefectTouchSize)

TouchTargetDescription(el) ==
    <<"Interactive element too small for touch (">>
    \o NumberToText(MathRound(el.width)) \o <<"x">>
    \o NumberToText(MathRound(el.height))
    \o <<"p", "x", ", min ">>
    \o NumberToText(RecommendedTouchSize) \o <<"x">>
    \o NumberToText(RecommendedTouchSize)
    \o <<"p", "x", " recommended)">>

TouchTargetIssue(el) ==
    [type |-> "touch-target",
     description |-> TouchTargetDescription(el),
     selector |-> getSelector(el),
     severity |-> "medium",
     element |-> getElementInfo(el),
     suggestedFix |-> "min-w-[44px] min-h-[44px] or p-3"]

\* el.scrollWidth > el.clientWidth && styles.overflow !== 'visible', text element
IsTruncatedText(el) ==
    el.scrollWidth > el.clientWidth /\ el.overflow # "visible" /\ isTextElement(el)

TextOverflowIssue(el) ==
    [type |-> "text-overflow",
     description |-> <<"Text is being truncated or clipped">>,
     selector |-> getSelector(el),
     severity |-> "low",
     element |-> getElementInfo(el),
     suggestedFix |-> "break-words or text-wrap or overflow-visible"]

\* (mutant) truncatedText counts every clipped element, text or not
InspectElementCountsClipped(results, el) ==
    IF ~IsVisible(el) THEN results
    ELSE
      LET w  == results.viewportWidth
          ho == OverflowsRight(el, w)
          os == IsOffscreenLeft(el)
          st == IsSmallTouchTarget(el)
          tt == st /\ IsDefectTouchTarget(el)
          to == IsTruncatedText(el)
          clipped == el.scrollWidth > el.clientWidth /\ el.overflow # "visible"
      IN [results EXCEPT
            !.overflowingElements = @ + (IF ho THEN 1 ELSE 0),
            !.smallTouchTargets   = @ + (IF st THEN 1 ELSE 0),
            !.truncatedText       = @ + (IF clipped THEN 1 ELSE 0),
            !.issues = @ \o (IF ho THEN <<OverflowIssue(el, w)>> ELSE <<>>)
                         \o (IF os THEN <<OffscreenIssue(el)>> ELSE <<>>)
                         \o (IF tt THEN <<TouchTargetIssue(el)>> ELSE <<>>)
                         \o (IF to THEN <<TextOverflowIssue(el)>> ELSE <<>>)]

\* the body of allElements.forEach for one element: results after the element
InspectElement(results, el) ==
    IF ~IsVisible(el) THEN results
    ELSE
      LET w  == results.viewportWidth
          ho == OverflowsRight(el, w)
          os == IsOffscreenLeft(el)
          st == IsSmallTouchTarget(el)
          tt == st /\ IsDefectTouchTarget(el)
          to == IsTruncatedText(el)
      IN [results EXCEPT
            !.overflowingElements = @ + (IF ho THEN 1 ELSE 0),
            !.smallTouchTargets   = @ + (IF st THEN 1 ELSE 0),
            !.truncatedText       = @ + (IF to THEN 1 ELSE 0),
            !.issues = @ \o (IF ho THEN <<OverflowIssue(el, w)>> ELSE <<>>)
                         \o (IF os THEN <<OffscreenIssue(el)>> ELSE <<>>)
                         \o (IF tt THEN <<TouchTargetIssue(el)>> ELSE <<>>)
                         \o (IF to THEN <<TextOverflowIssue(el)>> ELSE <<>>)]

\* allElements.forEach(...)
RECURSIVE ScanElements(_, _)
ScanElements(results, els) ==
    IF els = <<>> THEN results
    ELSE ScanElements(InspectElement(results, Head(els)), Tail(els))

PageScrollDescription(results) ==
    <<"Page has horizontal scrollbar (document: ">>
    \o NumberToText(results.documentWidth) \o <<"p", "x", ", viewport: ">>
    \o NumberToText(results.viewportWidth) \o <<"p", "x", ")">>

PageScrollIssue(doc, results) ==
    [type |-> "horizontal-overflow",
     description |-> PageScrollDescription(results),
     selector |-> "body",
     severity |-> "high",
     element |-> [tagName |-> "body", classes |-> doc.bodyClass, id |-> doc.bodyId,
                  rect |-> [x |-> 0, y |-> 0, width |-> Px(results.documentWidth),
                            height |-> Px(doc.scrollHeight)]],
     suggestedFix |-> "Add overflow-x-hidden to body or fix overflowing children"]

\* (mutant) the page-level observation is pushed behind the others
InspectorPageLast(doc) ==
    LET initial == [hasHorizontalScroll |-> doc.scrollWidth > doc.innerWidth,
                    documentWidth |-> doc.scrollWidth,
                    viewportWidth |-> doc.innerWidth,
                    overflowingElements |-> 0,
                    smallTouchTargets |-> 0,
                    truncatedText |-> 0,
                    issues |-> <<>>]
        scanned == ScanElements(initial, doc.elements)
    IN IF scanned.hasHorizontalScroll
       THEN [scanned EXCEPT !.issues = @ \o <<PageScrollIssue(doc, scanned)>>]
       ELSE scanned

\* the routine passed to page.evaluate: the results object it returns
Inspector(doc) ==
    LET initial == [hasHorizontalScroll |-> doc.scrollWidth > doc.innerWidth,
                    documentWidth |-> doc.scrollWidth,
                    viewportWidth |-> doc.innerWidth,
                    overflowingElements |-> 0,
                    smallTouchTargets |-> 0,
                    truncatedText |-> 0,
                    issues |-> <<>>]
        scanned == ScanElements(initial, doc.elements)
    IN IF scanned.hasHorizontalScroll
       THEN [scanned EXCEPT !.issues = <<PageScrollIssue(doc, scanned)>> \o @]
       ELSE scanned

(***************************************************************************)
(* analyzeViewport, after the in-page evaluation has returned.             *)
(***************************************************************************)
\* issues.push({...}) of one observation: the viewport's identity attached
StampIssue(issue, viewport) ==
    [type |-> issue.type,
     description |-> issue.description,
     selector |-> issue.selector,
     viewport |-> viewport.name,
     viewportWidth |-> viewport.width,
     severity |-> issue.severity,
     element |-> issue.element,
     suggestedFix |-> issue.suggestedFix]

\* (mutant) the observations are stamped from the last to the first
StampIssuesReversed(rawIssues, viewport) ==
    [k \in 1..Len(rawIssues) |->
        StampIssue(rawIssues[Len(rawIssues) - k + 1], viewport)]

\* for (const issue of analysis.issues) issues.push(...)
StampIssues(rawIssues, viewport) ==
    [k \in 1..Len(rawIssues) |-> StampIssue(rawIssues[k], viewport)]

\* the ViewportAnalysis analyzeViewport returns
MakeViewportAnalysis(viewport, analysis) ==
    [viewport |-> viewport,
     breakpoint |-> getTailwindBreakpoint(viewport.width),
     issues |-> StampIssues(analysis.issues, viewport),
     metrics |-> [hasHorizontalScroll |-> analysis.hasHorizontalScroll,
                  documentWidth |-> analysis.documentWidth,
                  viewportWidth |-> analysis.viewportWidth,
                  overflowingElements |-> analysis.overflowingElements,
                  smallTouchTargets |-> analysis.smallTouchTargets,
                  truncatedText |-> analysis.truncatedText]]

(***************************************************************************)
(* The summary analyzeResponsiveDesign computes.  null is the empty        *)
(* sequence and a present name n the sequence <<n>>.                       *)
(***************************************************************************)
Null == <<>>
Some(x) == <<x>>

\* (mutant) map instead of flatMap: only each viewport's first issue is kept
RECURSIVE MapFirstIssues(_)
MapFirstIssues(viewportResults) ==
    IF viewportResults = <<>> THEN <<>>
    ELSE Slice0(Head(viewportResults).issues, 1) \o MapFirstIssues(Tail(viewportResults))

\* viewportResults.flatMap(v => v.issues)
RECURSIVE FlatMapIssues(_)
FlatMapIssues(viewportResults) ==
    IF viewportResults = <<>> THEN <<>>
    ELSE Head(viewportResults).issues \o FlatMapIssues(Tail(viewportResults))

\* allIssues.filter(i => i.severity === severity).length
CountSeverity(allIssues, severity) ==
    Cardinality({k \in 1..Len(allIssues) : allIssues[k].severity = severity})

\* (mutant) the comparison is >= instead of >: the last of equals wins
RECURSIVE WorstViewportLoopLast(_, _, _)
WorstViewportLoopLast(rest, worstViewport, maxIssues) ==
    IF rest = <<>> THEN worstViewport
    ELSE LET vp == Head(rest) IN
         IF Len(vp.issues) >= maxIssues
         THEN WorstViewportLoopLast(Tail(rest), <<vp.viewport.name>>, Len(vp.issues))
         ELSE WorstViewportLoopLast(Tail(rest), worstViewport, maxIssues)

\* the loop "for (const vp of viewportResults)" over what is left of the list,
\* from the current worstViewport and maxIssues
RECURSIVE WorstViewportLoop(_, _, _)
WorstViewportLoop(rest, worstViewport, maxIssues) ==
    IF rest = <<>> THEN worstViewport
    ELSE LET vp == Head(rest) IN
         IF Len(vp.issues) > maxIssues
         THEN WorstViewportLoop(Tail(rest), Some(vp.viewport.name), Len(vp.issues))
         ELSE WorstViewportLoop(Tail(rest), worstViewport, maxIssues)

FindWorstViewport(viewportResults) == WorstViewportLoop(viewportResults, Null, 0)

\* the position of key in a Map (0 when absent)
MapIndex(map, key) ==
    IF \E k \in 1..Len(map) : map[k].key = key
    THEN CHOOSE k \in 1..Len(map) : map[k].key = key
    ELSE 0

\* issueTypeCounts.set(type, (issueTypeCounts.get(type) || 0) + 1)
CountType(counts, type) ==
    LET k == MapIndex(counts, type) IN
    IF k = 0 THEN Append(counts, [key |-> type, count |-> 1])
    ELSE [counts EXCEPT ![k].count = @ + 1]

\* for (const issue of allIssues) issueTypeCounts.set(...)
RECURSIVE CountTypes(_, _)
CountTypes(allIssues, counts) ==
    IF allIssues = <<>> THEN counts
    ELSE CountTypes(Tail(allIssues), CountType(counts, Head(allIssues).type))

\* (mutant) an entry goes before the entries of equal count: ties are reversed
RECURSIVE InsertByCountUnstable(_, _)
InsertByCountUnstable(sorted, entry) ==
    IF sorted = <<>> THEN <<entry>>
    ELSE IF Head(sorted).count > entry.count
         THEN <<Head(sorted)>> \o InsertByCountUnstable(Tail(sorted), entry)
         ELSE <<entry>> \o sorted

\* (mutant) the comparator is a[1] - b[1]: the sort is ascending
RECURSIVE InsertByCountAscending(_, _)
InsertByCountAscending(sorted, entry) ==
    IF sorted = <<>> THEN <<entry>>
    ELSE IF Head(sorted).count <= entry.count
         THEN <<Head(sorted)>> \o InsertByCountAscending(Tail(sorted), entry)
         ELSE <<entry>> \o sorted

\* one entry put into an already sorted list: behind every entry that the
\* comparator (a, b) => b[1] - a[1] does not order after it
RECURSIVE InsertByCount(_, _)
InsertByCount(sorted, entry) ==
    IF sorted = <<>> THEN <<entry>>
    ELSE IF Head(sorted).count >= entry.count
         THEN <<Head(sorted)>> \o InsertByCount(Tail(sorted), entry)
         ELSE <<entry>> \o sorted

\* entries.sort((a, b) => b[1] - a[1]): the sort is stable
RECURSIVE SortByCountDesc(_, _)
SortByCountDesc(entries, sorted) ==
    IF entries = <<>> THEN sorted
    ELSE SortByCountDesc(Tail(entries), InsertByCount(sorted, Head(entries)))

\* [...issueTypeCounts.entries()].sort(...).slice(0, 3).map(([type]) => type)
FindCommonIssues(allIssues) ==
    LET top == Slice0(SortByCountDesc(CountTypes(allIssues, <<>>), <<>>), 3)
    IN [k \in 1..Len(top) |-> top[k].key]

\* the summary object of the result
MakeSummary(viewportResults) ==
    LET allIssues == FlatMapIssues(viewportResults) IN
    [totalIssues |-> Len(allIssues),
     highSeverity |-> CountSeverity(allIssues, "high"),
     mediumSeverity |-> CountSeverity(allIssues, "medium"),
     lowSeverity |-> CountSeverity(allIssues, "low"),
     worstViewport |-> FindWorstViewport(viewportResults),
     commonIssues |-> FindCommonIssues(allIssues)]

\* the AnalysisResult (the timestamp is not modelled)
MakeResult(url, viewportResults) ==
    [url |-> url, viewports |-> viewportResults, summary |-> MakeSummary(viewportResults)]

(***************************************************************************)
(* The test_responsive handler (index.ts): what it does with the result.   *)
(***************************************************************************)
\* (mutant) the key is the selector alone
IssueKeySelectorOnly(issue) == issue.selector

\* `${issue.type}|${issue.selector}`
IssueKey(issue) == issue.type \o "|" \o issue.selector

\* issue.description.replace(/\d+px/g, 'Npx')
NormalizeDescription(description) == ReplacePx(description)

\* the entry issueMap.set(key, {...}) stores at the first sight of a key
NewEntry(key, issue) ==
    [key |-> key,
     type |-> issue.type,
     selector |-> issue.selector,
     severity |-> issue.severity,
     description |-> NormalizeDescription(issue.description),
     suggestedFix |-> issue.suggestedFix,
     viewports |-> <<>>]

\* (mutant) the name is pushed without the includes test
AddViewportAlways(names, name) == Append(names, name)

\* if (!entry.viewports.includes(name)) entry.viewports.push(name)
AddViewport(names, name) ==
    IF Includes(names, name) THEN names ELSE Append(names, name)

\* (mutant) issueMap.set on every sight: the last observation's attributes stay
DedupIssueLastWins(issueMap, issue, vpName) ==
    LET key == issue.type \o "|" \o issue.selector
        k == MapIndex(issueMap, key)
        entry == [key |-> key, type |-> issue.type, selector |-> issue.selector,
                  severity |-> issue.severity,
                  description |-> ReplacePx(issue.description),
                  suggestedFix |-> issue.suggestedFix,
                  viewports |-> IF k = 0 THEN <<>> ELSE issueMap[k].viewports]
        names == IF Includes(entry.viewports, vpName) THEN entry.viewports
                 ELSE Append(entry.viewports, vpName)
    IN IF k = 0 THEN Append(issueMap, [entry EXCEPT !.viewports = names])
       ELSE [issueMap EXCEPT ![k] = [entry EXCEPT !.viewports = names]]

\* the body of "for (const issue of vp.issues)"
DedupIssue(issueMap, issue, vpName) ==
    LET key == IssueKey(issue)
        withKey == IF MapIndex(issueMap, key) = 0
                   THEN Append(issueMap, NewEntry(key, issue))
                   ELSE issueMap
        k == MapIndex(withKey, key)
    IN [withKey EXCEPT ![k].viewports = AddViewport(@, vpName)]

\* for (const issue of vp.issues) {...}
RECURSIVE DedupIssues(_, _, _)
DedupIssues(issueMap, issues, vpName) ==
    IF issues = <<>> THEN issueMap
    ELSE DedupIssues(DedupIssue(issueMap, Head(issues), vpName), Tail(issues), vpName)

\* for (const vp of result.viewports) {...}
RECURSIVE DedupViewports(_, _)
DedupViewports(issueMap, viewportResults) ==
    IF viewportResults = <<>> THEN issueMap
    ELSE LET vp == Head(viewportResults) IN
         DedupViewports(DedupIssues(issueMap, vp.issues, vp.viewport.name),
                        Tail(viewportResults))

\* if (!byType.has(issue.type)) byType.set(issue.type, []); byType.get(...).push(issue)
GroupIssue(byType, entry) ==
    LET withKey == IF MapIndex(byType, entry.type) = 0
                   THEN Append(byType, [key |-> entry.type, issues |-> <<>>])
                   ELSE byType
        k == MapIndex(withKey, entry.type)
    IN [withKey EXCEPT ![k].issues = Append(@, entry)]

\* for (const issue of issueMap.values()) {...}
RECURSIVE GroupByType(_, _)
GroupByType(byType, entries) ==
    IF entries = <<>> THEN byType
    ELSE GroupByType(GroupIssue(byType, Head(entries)), Tail(entries))

\* the lines of the "Fixes" section
FixSuggestions(summary) ==
    LET hasOverflow == Includes(summary.commonIssues, "horizontal-overflow")
        hasTouchTarget == Includes(summary.commonIssues, "touch-target")
    IN (IF hasOverflow THEN <<"Overflow">> ELSE <<>>)
       \o (IF hasTouchTarget THEN <<"Touch targets">> ELSE <<>>)

\* the rows of the viewport table: the viewports that have issues
RECURSIVE ViewportTable(_)
ViewportTable(viewportResults) ==
    IF viewportResults = <<>> THEN <<>>
    ELSE LET vp == Head(viewportResults) IN
         (IF Len(vp.issues) = 0 THEN <<>>
          ELSE <<[name |-> vp.viewport.name, width |-> vp.viewport.width,
                  issues |-> Len(vp.issues),
                  hScroll |-> vp.metrics.hasHorizontalScroll]>>)
         \o ViewportTable(Tail(viewportResults))

NoResponse ==
    [kind |-> "none", isError |-> FALSE, message |-> "", table |-> <<>>,
     issueMap |-> <<>>, byType |-> <<>>, fixes |-> <<>>]

\* the try block of the handler, from the result on: the report it returns
BuildReport(result) ==
    IF result.summary.totalIssues = 0
    THEN [NoResponse EXCEPT !.kind = "pass"]
    ELSE LET issueMap == DedupViewports(<<>>, result.viewports) IN
         [NoResponse EXCEPT
            !.kind = "report",
            !.table = ViewportTable(result.viewports),
            !.issueMap = issueMap,
            !.byType = GroupByType(<<>>, issueMap),
            !.fixes = FixSuggestions(result.summary)]

\* error instanceof Error ? error.message : 'Unknown error'
ErrorMessage(error) ==
    IF error.instanceOfError THEN error.message ELSE "Unknown error"

\* the catch block of the handler
BuildErrorResponse(error) ==
    [NoResponse EXCEPT !.kind = "error", !.isError = TRUE,
                       !.message = ErrorMessage(error)]

(***************************************************************************)
(* The pages the runs are tried on: what the page's elements may look like *)
(* once a viewport of width w is applied.                                  *)
(***************************************************************************)
Block ==
    [tagName |-> "div", id |-> "", classes |-> <<>>,
     left |-> 0, top |-> 0, width |-> Px(100), height |-> Px(100),
     display |-> "block", visibility |-> "visible", overflow |-> "visible",
     scrollWidth |-> 100, clientWidth |-> 100, role |-> "", onclick |-> FALSE]

\* a banner whose right edge lies excess (in 1/Scale px) beyond the viewport
Hero(w, excess) == [Block EXCEPT !.id = "hero", !.width = Px(w) + excess]

\* a link of the given size
SmallLink(width, height) ==
    [Block EXCEPT !.tagName = "a", !.classes = <<"btn", "btn-sm", "primary">>,
                  !.left = Px(10), !.width = width, !.height = height]

\* a small link whose text is clipped as well
ClippedLink(width, height) ==
    [SmallLink(width, height) EXCEPT !.overflow = "hidden",
                                     !.scrollWidth = 60, !.clientWidth = 25]

\* a paragraph whose text is clipped
Lead ==
    [Block EXCEPT !.tagName = "p", !.classes = <<"lead">>, !.overflow = "hidden",
                  !.scrollWidth = 300, !.clientWidth = 200]

\* a panel that starts left of the viewport
Slide == [Block EXCEPT !.id = "side|bar", !.left = -Px(40)]

\* an element that is not displayed
Ghost(w) == [Block EXCEPT !.display = "none", !.width = Px(w) + Px(500)]

Document(w, docExcess, elements) ==
    [innerWidth |-> w, scrollWidth |-> w + docExcess, scrollHeight |-> 2000,
     bodyClass |-> <<>>, bodyId |-> "", elements |-> elements]

Layouts(w) ==
    { Document(w, 0,  <<Block, Ghost(w)>>),
      Document(w, 80, <<Hero(w, Px(80))>>),
      Document(w, 0,  <<Hero(w, Px(20) + 1)>>),
      Document(w, 0,  <<SmallLink(Px(20), Px(20)), Lead, Slide>>),
      Document(w, 0,  <<ClippedLink(Px(25), Px(20)), SmallLink(Px(20), Px(20))>>),
      Document(w, 0,  <<Hero(w, Px(20) + 1), SmallLink(Px(40), Px(40)), Lead>>) }

Url == "https://example.com"

\* the viewports test_responsive runs on: the catalog, cut to the bound
Catalog == SubSeq(DEFAULT_VIEWPORTS, 1, Min(NumViewports, Len(DEFAULT_VIEWPORTS)))

\* the viewport lists a direct caller of analyzeResponsiveDesign passes
InputPool == {DEFAULT_VIEWPORTS[1], DEFAULT_VIEWPORTS[5]}
DirectInputs == UNION {[1..n -> InputPool] : n \in 0..NumViewports}

(***************************************************************************)
(* The errors the awaited operations reject with.                          *)
(***************************************************************************)
Error(message) == [instanceOfError |-> TRUE, message |-> message]

EngineUnavailable == Error("Failed to launch the browser process")
NewPageFailure    == Error("Protocol error (Target.createTarget)")
NavigationFailure == Error("Navigation timeout of 30000 ms exceeded")
ViewportFailure   == Error("Protocol error (Emulation.setDeviceMetricsOverride)")
InspectionFailure == Error("Execution context was destroyed")
CloseFailure      == Error("Protocol error: Connection closed")

(***************************************************************************)
(* The state.                                                              *)
(*   caller, viewports  who called analyzeResponsiveDesign, with what list *)
(*   pc                 the await the run is suspended at                  *)
(*   browser            the module-level handle: instance 0 is null        *)
(*   launches           how many engine instances were launched            *)
(*   page               the page of the run                                *)
(*   idx                the position of the for-of loop in viewports       *)
(*   viewportResults    the analyses collected so far                      *)
(*   pending            the completion of the try block, held by finally   *)
(*   outcome            how analyzeResponsiveDesign ended for its caller   *)
(*   response           what the handler answered                          *)
(* and, recording what has happened,                                       *)
(*   started            the loop positions whose pass has begun, in order  *)
(*   inFlight           the loop positions whose pass has begun, not ended *)
(*   inspections        one record per evaluation of the Inspector         *)
(*   failure            the first error an awaited operation rejected with *)
(*   closeCalls         how often page.close() was called                  *)
(***************************************************************************)
VARIABLES caller, viewports, pc, browser, launches, page, idx, viewportResults,
          pending, outcome, response, started, inFlight, inspections, failure,
          closeCalls, steps, pages, shotBrowser, screenshots, probe, engine

vars == <<caller, viewports, pc, browser, launches, page, idx, viewportResults,
          pending, outcome, response, started, inFlight, inspections, failure,
          closeCalls, steps, pages, shotBrowser, screenshots, probe, engine>>

\* what a call of analyzeResponsiveDesign never touches: the state of
\* screenshot.ts and the state of the other specifications of this module
aside == <<shotBrowser, screenshots, probe, engine>>

NoCompletion == [kind |-> "none", result |-> <<>>, error |-> <<>>]
Return(result) == [kind |-> "return", result |-> <<result>>, error |-> <<>>]
Throw(error) == [kind |-> "throw", result |-> <<>>, error |-> <<error>>]

NoPage == [state |-> "none", url |-> "", innerWidth |-> 0, innerHeight |-> 0,
           settled |-> FALSE]

\* let browser: Browser | null = null
NoBrowser == [instance |-> 0, connected |-> FALSE]

\* the other specifications of this module have not started
NoProbe == [phase |-> "none"]
NoEngine == [phase |-> "none"]

Init ==
    /\ caller \in {"test_responsive", "direct"}
    /\ viewports \in (IF caller = "test_responsive" THEN {Catalog} ELSE DirectInputs)
    /\ pc = "getBrowser"
    /\ browser = NoBrowser
    /\ launches = 0
    /\ page = NoPage
    /\ idx = 0
    /\ viewportResults = <<>>
    /\ pending = NoCompletion
    /\ outcome = NoCompletion
    /\ response = NoResponse
    /\ started = <<>>
    /\ inFlight = {}
    /\ inspections = <<>>
    /\ failure = <<>>
    /\ closeCalls = 0
    /\ steps = <<>>
    /\ pages = <<>>
    /\ shotBrowser = NoBrowser
    /\ screenshots = <<>>
    /\ probe = NoProbe
    /\ engine = NoEngine

(***************************************************************************)
(* The run: getBrowser, analyzeResponsiveDesign and analyzeViewport, one   *)
(* action per way an awaited operation can end.  The code between two      *)
(* awaits runs without interruption and belongs to the action that ends    *)
(* the first of them.                                                      *)
(***************************************************************************)
\* what the caller's continuation makes of the settled promise
Respond(completion) ==
    IF caller # "test_responsive" THEN NoResponse
    ELSE IF completion.kind = "return" THEN BuildReport(completion.result[1])
    ELSE BuildErrorResponse(completion.error[1])

\* (mutant) the loop walks the list from its end
LoopViewportBackwards(list, i) == list[Len(list) - i + 1]

\* the element the for-of loop yields at position i
LoopViewport(list, i) == list[i]

\* whether the loop has another element after position i
LoopHasNext(list, i) == i < Len(list)

\* the first rejection of the run
Noted(error) == IF failure = <<>> THEN <<error>> ELSE failure

\* analyzeResponsiveDesign ends for its caller, before any page exists
Settle(completion) ==
    /\ outcome' = completion
    /\ response' = Respond(completion)
    /\ pc' = "done"

\* the loop moves to position i and analyzeViewport calls page.setViewport
BeginPass(i) ==
    /\ idx' = i
    /\ started' = Append(started, i)
    /\ inFlight' = inFlight \cup {i}
    /\ pc' = "setViewport"

\* the completion the try block ends with when the loop is over
Completed(results) == Return(MakeResult(Url, results))

\* the completion the try block ends with when an awaited operation rejects
Aborted(results, error) == Throw(error)

\* (mutant) a rejection inside the try block ends the call at once
RejectPastFinally(error) ==
    /\ pending' = Aborted(viewportResults, error)
    /\ failure' = Noted(error)
    /\ inFlight' = {}
    /\ pc' = "done"

\* an awaited operation of the try block rejects: control passes to finally
Reject(error) ==
    /\ pending' = Aborted(viewportResults, error)
    /\ failure' = Noted(error)
    /\ inFlight' = {}
    /\ pc' = "close"

\* an awaited operation of analyzeViewport has ended, well or not
Did(op, ok) == steps' = Append(steps, [index |-> idx, op |-> op, ok |-> ok])

\* browserInstance.newPage() resolves with a page nobody has closed
OpenPage == pages' = Append(pages, [state |-> "open", closeCalls |-> 0])

\* page.close() has been called on the page opened last and has ended
ClosePage(after) ==
    pages' = [pages EXCEPT ![Len(pages)] =
                 [state |-> after, closeCalls |-> @.closeCalls + 1]]

\* (mutant) the geometry is applied with width and height exchanged
AppliedGeometrySwapped(viewport) ==
    [innerWidth |-> viewport.height, innerHeight |-> viewport.width]

\* the window's size once page.setViewport(viewport) has resolved
AppliedGeometry(viewport) ==
    [innerWidth |-> viewport.width, innerHeight |-> viewport.height]

\* getBrowser: if (!browser || !browser.connected)
GetBrowser ==
    /\ pc = "getBrowser"
    /\ pc' = IF browser.instance = 0 \/ ~browser.connected
             THEN "launch" ELSE "newPage"
    /\ UNCHANGED <<aside, steps, pages, caller, viewports, browser, launches,
                   page, idx, viewportResults, pending, outcome, response,
                   started, inFlight, inspections, failure, closeCalls>>

\* browser = await puppeteer.launch(...)
LaunchOk ==
    /\ pc = "launch"
    /\ launches' = launches + 1
    /\ browser' = [instance |-> launches + 1, connected |-> TRUE]
    /\ pc' = "newPage"
    /\ UNCHANGED <<aside, steps, pages, caller, viewports, page, idx,
                   viewportResults, pending, outcome, response, started,
                   inFlight, inspections, failure, closeCalls>>

LaunchFail ==
    /\ pc = "launch"
    /\ failure' = Noted(EngineUnavailable)
    /\ Settle(Throw(EngineUnavailable))
    /\ UNCHANGED <<aside, steps, pages, caller, viewports, browser, launches,
                   page, idx, viewportResults, pending, started, inFlight,
                   inspections, closeCalls>>

\* const page = await browserInstance.newPage()
NewPageOk ==
    /\ pc = "newPage"
    /\ page' = [NoPage EXCEPT !.state = "open", !.innerWidth = 800,
                              !.innerHeight = 600, !.settled = TRUE]
    /\ pc' = "goto"
    /\ OpenPage
    /\ UNCHANGED <<aside, steps, caller, viewports, browser, launches, idx,
                   viewportResults, pending, outcome, response, started,
                   inFlight, inspections, failure, closeCalls>>

NewPageFail ==
    /\ pc = "newPage"
    /\ failure' = Noted(NewPageFailure)
    /\ Settle(Throw(NewPageFailure))
    /\ UNCHANGED <<aside, steps, pages, caller, viewports, browser, launches,
                   page, idx, viewportResults, pending, started, inFlight,
                   inspections, closeCalls>>

\* await page.goto(url, ...), then the loop's first step or, with no viewport,
\* the summary and the return
GotoOk ==
    /\ pc = "goto"
    /\ page' = [page EXCEPT !.url = Url]
    /\ viewportResults' = <<>>
    /\ IF LoopHasNext(viewports, 0)
       THEN /\ BeginPass(1)
            /\ UNCHANGED pending
       ELSE /\ pending' = Completed(<<>>)
            /\ pc' = "close"
            /\ UNCHANGED <<idx, started, inFlight>>
    /\ UNCHANGED <<aside, steps, pages, caller, viewports, browser, launches,
                   outcome, response, inspections, failure, closeCalls>>

GotoFail ==
    /\ pc = "goto"
    /\ Reject(NavigationFailure)
    /\ UNCHANGED <<aside, steps, pages, caller, viewports, browser, launches,
                   page, idx, viewportResults, outcome, response, started,
                   inspections, closeCalls>>

\* analyzeViewport: await page.setViewport({width, height, deviceScaleFactor: 1})
SetViewportOk ==
    /\ pc = "setViewport"
    /\ LET applied == AppliedGeometry(LoopViewport(viewports, idx))
       IN page' = [page EXCEPT !.innerWidth = applied.innerWidth,
                               !.innerHeight = applied.innerHeight,
                               !.settled = FALSE]
    /\ pc' = "settle"
    /\ Did("setViewport", TRUE)
    /\ UNCHANGED <<aside, pages, caller, viewports, browser, launches, idx,
                   viewportResults, pending, outcome, response, started,
                   inFlight, inspections, failure, closeCalls>>

SetViewportFail ==
    /\ pc = "setViewport"
    /\ Reject(ViewportFailure)
    /\ Did("setViewport", FALSE)
    /\ UNCHANGED <<aside, pages, caller, viewports, browser, launches, page,
                   idx, viewportResults, outcome, response, started,
                   inspections, closeCalls>>

\* analyzeViewport: the settle delay, evaluated in the page
SettleOk ==
    /\ pc = "settle"
    /\ page' = [page EXCEPT !.settled = TRUE]
    /\ pc' = "evaluate"
    /\ Did("settle", TRUE)
    /\ UNCHANGED <<aside, pages, caller, viewports, browser, launches, idx,
                   viewportResults, pending, outcome, response, started,
                   inFlight, inspections, failure, closeCalls>>

SettleFail ==
    /\ pc = "settle"
    /\ Reject(InspectionFailure)
    /\ Did("settle", FALSE)
    /\ UNCHANGED <<aside, pages, caller, viewports, browser, launches, page,
                   idx, viewportResults, outcome, response, started,
                   inspections, closeCalls>>

\* analyzeViewport: the Inspector's evaluation returns; the observations are
\* stamped, the analysis is pushed, and the loop goes on or the summary is made
EvaluateOk ==
    /\ pc = "evaluate"
    /\ \E doc \in Layouts(page.innerWidth) :
         LET analysis == Inspector(doc)
             results  == Append(viewportResults,
                                MakeViewportAnalysis(LoopViewport(viewports, idx),
                                                     analysis))
         IN /\ viewportResults' = results
            /\ inspections' = Append(inspections,
                                     [index |-> idx, innerWidth |-> page.innerWidth,
                                      settled |-> page.settled])
            /\ IF LoopHasNext(viewports, idx)
               THEN /\ idx' = idx + 1
                    /\ started' = Append(started, idx + 1)
                    /\ inFlight' = (inFlight \ {idx}) \cup {idx + 1}
                    /\ pc' = "setViewport"
                    /\ UNCHANGED pending
               ELSE /\ pending' = Completed(results)
                    /\ inFlight' = inFlight \ {idx}
                    /\ pc' = "close"
                    /\ UNCHANGED <<idx, started>>
    /\ Did("evaluate", TRUE)
    /\ UNCHANGED <<aside, pages, caller, viewports, browser, launches, page,
                   outcome, response, failure, closeCalls>>

EvaluateFail ==
    /\ pc = "evaluate"
    /\ Reject(InspectionFailure)
    /\ Did("evaluate", FALSE)
    /\ UNCHANGED <<aside, pages, caller, viewports, browser, launches, page,
                   idx, viewportResults, outcome, response, started,
                   inspections, closeCalls>>

\* finally { await page.close() }: the completion of the try block stands
CloseOk ==
    /\ pc = "close"
    /\ closeCalls' = closeCalls + 1
    /\ page' = [page EXCEPT !.state = "closed"]
    /\ Settle(pending)
    /\ ClosePage("closed")
    /\ UNCHANGED <<aside, steps, caller, viewports, browser, launches, idx,
                   viewportResults, pending, started, inFlight, inspections,
                   failure>>

\* finally { await page.close() } rejects: its error replaces the completion,
\* and whether the page went away before the rejection is not known
CloseFail ==
    /\ pc = "close"
    /\ closeCalls' = closeCalls + 1
    /\ \E after \in {"open", "closed"} :
         /\ page' = [page EXCEPT !.state = after]
         /\ ClosePage(after)
    /\ failure' = Noted(CloseFailure)
    /\ Settle(Throw(CloseFailure))
    /\ UNCHANGED <<aside, steps, caller, viewports, browser, launches, idx,
                   viewportResults, pending, started, inFlight, inspections>>

Next ==
    \/ GetBrowser
    \/ LaunchOk
    \/ LaunchFail
    \/ NewPageOk
    \/ NewPageFail
    \/ GotoOk
    \/ GotoFail
    \/ SetViewportOk
    \/ SetViewportFail
    \/ SettleOk
    \/ SettleFail
    \/ EvaluateOk
    \/ EvaluateFail
    \/ CloseOk
    \/ CloseFail

Spec == Init /\ [][Next]_vars

(***************************************************************************)
(* What the properties below speak about.                                  *)
(***************************************************************************)
Returned == outcome.kind = "return"
TheResult == outcome.result[1]
Reported == response.kind = "report"

\* the places of the observations of a run: <<viewport position, issue position>>
Positions(vrs) ==
    UNION {{<<v, j>> : j \in 1..Len(vrs[v].issues)} : v \in 1..Len(vrs)}

ObservationAt(vrs, p) == vrs[p[1]].issues[p[2]]

\* the iteration order: viewports in order, issues in per-viewport order
Earlier(p, q) == p[1] < q[1] \/ (p[1] = q[1] /\ p[2] < q[2])

FirstOf(places) == CHOOSE p \in places : \A q \in places : p = q \/ Earlier(p, q)

PlacesOfKind(vrs, kind) ==
    {p \in Positions(vrs) : ObservationAt(vrs, p).type = kind}

KindsOf(vrs) == {ObservationAt(vrs, p).type : p \in Positions(vrs)}

KindCount(vrs, kind) == Cardinality(PlacesOfKind(vrs, kind))

PlacesOfPair(vrs, kind, selector) ==
    {p \in PlacesOfKind(vrs, kind) : ObservationAt(vrs, p).selector = selector}

PairsOf(vrs) ==
    {<<ObservationAt(vrs, p).type, ObservationAt(vrs, p).selector>> :
        p \in Positions(vrs)}

NoDuplicates(s) == \A i, j \in 1..Len(s) : s[i] = s[j] => i = j

RECURSIVE SumIssueCounts(_)
SumIssueCounts(vrs) ==
    IF vrs = <<>> THEN 0 ELSE Len(Head(vrs).issues) + SumIssueCounts(Tail(vrs))

RECURSIVE SumSeverity(_, _)
SumSeverity(vrs, severity) ==
    IF vrs = <<>> THEN 0
    ELSE Cardinality({j \in 1..Len(Head(vrs).issues) :
                        Head(vrs).issues[j].severity = severity})
         + SumSeverity(Tail(vrs), severity)

(***************************************************************************)
(* C1.  The passes of a run happen one after another in input order: at    *)
(* most one pass is in flight, the passes begun are positions 1, 2, ... in *)
(* that order, a pass begins only when all passes before it have delivered *)
(* their analysis, the k-th analysis collected is that of the k-th input   *)
(* viewport, and a returned result holds exactly one analysis per input    *)
(* viewport, in input order.                                               *)
(***************************************************************************)
C1_SequentialInOrder ==
    /\ Cardinality(inFlight) <= 1
    /\ \A k \in 1..Len(started) : started[k] = k
    /\ Len(started) <= Len(viewportResults) + 1
    /\ inFlight \subseteq {Len(viewportResults) + 1}
    /\ \A k \in 1..Len(viewportResults) : viewportResults[k].viewport = viewports[k]
    /\ \A k \in 1..Len(inspections) : inspections[k].index = k
    /\ Returned =>
         /\ Len(TheResult.viewports) = Len(viewports)
         /\ \A k \in 1..Len(viewports) : TheResult.viewports[k].viewport = viewports[k]
         /\ Len(inspections) = Len(viewports)
         /\ inFlight = {}

C1_Witness ==
    /\ Returned
    /\ Len(viewports) >= 2
    /\ viewports[1].width > viewports[2].width

(***************************************************************************)
(* C2.  When navigation or a viewport pass has failed and the run is over, *)
(* analyzeResponsiveDesign has returned no result, what it threw (and what *)
(* the handler reports) is that first, triggering error, and no viewport   *)
(* after the failed pass was analyzed.                                     *)
(***************************************************************************)
TriggeringErrors == {NavigationFailure, ViewportFailure, InspectionFailure}

C2_AbortSurfacesTrigger ==
    (pc = "done" /\ failure # <<>> /\ failure[1] \in TriggeringErrors) =>
        /\ outcome.kind = "throw"
        /\ outcome.result = <<>>
        /\ outcome.error = failure
        /\ (caller = "test_responsive" =>
              /\ response.isError
              /\ response.message = failure[1].message)
        /\ Len(started) <= Len(viewportResults) + 1
        /\ Len(inspections) = Len(viewportResults)

(***************************************************************************)
(* C3.  In a returned result, totalIssues is the sum of the viewports'     *)
(* issue counts, and highSeverity, mediumSeverity and lowSeverity are the  *)
(* numbers of observations of that severity over all viewports.            *)
(***************************************************************************)
C3_SummaryCounts ==
    Returned =>
        LET r == TheResult IN
        /\ r.summary.totalIssues = SumIssueCounts(r.viewports)
        /\ r.summary.highSeverity = SumSeverity(r.viewports, "high")
        /\ r.summary.mediumSeverity = SumSeverity(r.viewports, "medium")
        /\ r.summary.lowSeverity = SumSeverity(r.viewports, "low")

C3_Witness ==
    /\ Returned
    /\ Len(TheResult.viewports) >= 2
    /\ Len(TheResult.viewports[2].issues) > 0
    /\ TheResult.summary.highSeverity > 0
    /\ TheResult.summary.mediumSeverity > 0
    /\ TheResult.summary.lowSeverity > 0

(***************************************************************************)
(* C4.  In a returned result, worstViewport is null exactly when no        *)
(* viewport has an issue (totalIssues = 0); otherwise it is the name of    *)
(* the earliest viewport among those with the greatest issue count.        *)
(***************************************************************************)
IsEarliestWorst(vrs, m) ==
    /\ \A j \in 1..Len(vrs) : Len(vrs[j].issues) <= Len(vrs[m].issues)
    /\ \A j \in 1..(m - 1) : Len(vrs[j].issues) < Len(vrs[m].issues)

C4_WorstViewport ==
    Returned =>
        LET r == TheResult
            vrs == r.viewports
            clean == \A j \in 1..Len(vrs) : Len(vrs[j].issues) = 0
        IN /\ (r.summary.worstViewport = Null) <=> clean
           /\ (r.summary.worstViewport = Null) <=> (r.summary.totalIssues = 0)
           /\ ~clean => \E m \in 1..Len(vrs) :
                          /\ IsEarliestWorst(vrs, m)
                          /\ r.summary.worstViewport = Some(vrs[m].viewport.name)

\* two viewports of different names share the greatest count, the first wins
C4_Witness ==
    /\ Returned
    /\ \E m, n \in 1..Len(TheResult.viewports) :
         /\ m < n
         /\ IsEarliestWorst(TheResult.viewports, m)
         /\ Len(TheResult.viewports[n].issues) = Len(TheResult.viewports[m].issues)
         /\ Len(TheResult.viewports[m].issues) > 0
         /\ TheResult.viewports[m].viewport.name # TheResult.viewports[n].viewport.name
         /\ TheResult.summary.worstViewport = Some(TheResult.viewports[m].viewport.name)

(***************************************************************************)
(* C5.  In a returned result, commonIssues has at most 3 entries, no kind  *)
(* twice, and is the beginning of the list of the kinds that occur,        *)
(* ordered by descending count and, among equal counts, by first           *)
(* occurrence in the flattened issue sequence.                             *)
(***************************************************************************)
\* kind a comes before kind b: more frequent, or as frequent and seen first
RanksBefore(vrs, a, b) ==
    \/ KindCount(vrs, a) > KindCount(vrs, b)
    \/ /\ KindCount(vrs, a) = KindCount(vrs, b)
       /\ Earlier(FirstOf(PlacesOfKind(vrs, a)), FirstOf(PlacesOfKind(vrs, b)))

C5_CommonIssues ==
    Returned =>
        LET vrs == TheResult.viewports
            common == TheResult.summary.commonIssues
        IN /\ Len(common) <= 3
           /\ Len(common) = Min(3, Cardinality(KindsOf(vrs)))
           /\ NoDuplicates(common)
           /\ Range(common) \subseteq KindsOf(vrs)
           /\ \A i, j \in 1..Len(common) :
                i < j => RanksBefore(vrs, common[i], common[j])
           /\ \A kind \in KindsOf(vrs) \ Range(common) :
                \A i \in 1..Len(common) : RanksBefore(vrs, common[i], kind)

\* four kinds occur, and two kinds of equal count compete
C5_Witness ==
    /\ Returned
    /\ Cardinality(KindsOf(TheResult.viewports)) > 3
    /\ KindCount(TheResult.viewports, TheResult.summary.commonIssues[1])
         > KindCount(TheResult.viewports, TheResult.summary.commonIssues[2])
    /\ \E kind \in KindsOf(TheResult.viewports) \ Range(TheResult.summary.commonIssues) :
         KindCount(TheResult.viewports, kind)
           = KindCount(TheResult.viewports, TheResult.summary.commonIssues[3])

(***************************************************************************)
(* C6.  As claimed: consecutive entries of commonIssues are strictly       *)
(* descending by frequency.                                                *)
(***************************************************************************)
C6_StrictlyDescending ==
    Returned =>
        LET vrs == TheResult.viewports
            common == TheResult.summary.commonIssues
        IN \A i \in 1..(Len(common) - 1) :
             KindCount(vrs, common[i]) > KindCount(vrs, common[i + 1])

(***************************************************************************)
(* C6, amended.  Consecutive entries of commonIssues never ascend in       *)
(* frequency: the earlier kind occurs at least as often as the later one,  *)
(* and where the two occur equally often the earlier one was seen first.   *)
(***************************************************************************)
C6_NeverAscending ==
    Returned =>
        LET vrs == TheResult.viewports
            common == TheResult.summary.commonIssues
        IN \A i \in 1..(Len(common) - 1) :
             /\ KindCount(vrs, common[i]) >= KindCount(vrs, common[i + 1])
             /\ KindCount(vrs, common[i]) = KindCount(vrs, common[i + 1])
                  => Earlier(FirstOf(PlacesOfKind(vrs, common[i])),
                             FirstOf(PlacesOfKind(vrs, common[i + 1])))

\* a result whose commonIssues both falls and stays level
C6_Witness ==
    /\ Returned
    /\ Len(TheResult.summary.commonIssues) = 3
    /\ KindCount(TheResult.viewports, TheResult.summary.commonIssues[1])
         > KindCount(TheResult.viewports, TheResult.summary.commonIssues[2])
    /\ KindCount(TheResult.viewports, TheResult.summary.commonIssues[2])
         = KindCount(TheResult.viewports, TheResult.summary.commonIssues[3])

(***************************************************************************)
(* The deduplicated entries of a report.                                   *)
(***************************************************************************)
\* the viewport positions at which the pair (kind, selector) was observed
ViewportsOfPair(vrs, kind, selector) ==
    {p[1] : p \in PlacesOfPair(vrs, kind, selector)}

\* the first observation of an entry's pair, in iteration order
FirstObservation(vrs, entry) ==
    ObservationAt(vrs, FirstOf(PlacesOfPair(vrs, entry.type, entry.selector)))

(***************************************************************************)
(* C7.  In a report, the deduplicated entries are exactly the distinct     *)
(* (kind, selector) pairs observed in the run: every pair has exactly one  *)
(* entry, every entry is of an observed pair, and an entry's list of       *)
(* affected viewports is as long as the number of viewports its pair was   *)
(* observed on.                                                            *)
(***************************************************************************)
C7_OneEntryPerPair ==
    Reported =>
        LET vrs == TheResult.viewports
            map == response.issueMap
        IN /\ Len(map) = Cardinality(PairsOf(vrs))
           /\ \A pair \in PairsOf(vrs) :
                Cardinality({k \in 1..Len(map) :
                               map[k].type = pair[1] /\ map[k].selector = pair[2]}) = 1
           /\ \A k \in 1..Len(map) :
                /\ <<map[k].type, map[k].selector>> \in PairsOf(vrs)
                /\ Len(map[k].viewports)
                     = Cardinality(ViewportsOfPair(vrs, map[k].type, map[k].selector))

\* two pairs share a selector, and one pair is seen twice on one viewport and
\* on several viewports
C7_Witness ==
    /\ Reported
    /\ \E a, b \in PairsOf(TheResult.viewports) : a[1] # b[1] /\ a[2] = b[2]
    /\ \E k \in 1..Len(response.issueMap) :
         LET e == response.issueMap[k] IN
         /\ Len(e.viewports) >= 2
         /\ Cardinality(PlacesOfPair(TheResult.viewports, e.type, e.selector))
              > Len(e.viewports)

(***************************************************************************)
(* C8.  In a report, every entry's list of affected viewports holds names  *)
(* of the run's viewports only, no name twice, and its i-th name is the    *)
(* name of the i-th viewport, in catalog order, on which the pair was      *)
(* observed.                                                               *)
(***************************************************************************)
C8_AffectedViewports ==
    Reported =>
        LET vrs == TheResult.viewports
            map == response.issueMap
        IN \A k \in 1..Len(map) :
             LET seen == ViewportsOfPair(vrs, map[k].type, map[k].selector) IN
             /\ Range(map[k].viewports) \subseteq {vrs[v].viewport.name : v \in 1..Len(vrs)}
             /\ NoDuplicates(map[k].viewports)
             /\ \A i \in 1..Len(map[k].viewports) :
                  \E v \in seen :
                    /\ vrs[v].viewport.name = map[k].viewports[i]
                    /\ Cardinality({u \in seen : u < v}) = i - 1

\* an entry seen on two viewports but not the first, twice on one of them
C8_Witness ==
    /\ Reported
    /\ \E k \in 1..Len(response.issueMap) :
         LET e == response.issueMap[k]
             places == PlacesOfPair(TheResult.viewports, e.type, e.selector)
         IN /\ Len(e.viewports) = 2
            /\ 1 \notin ViewportsOfPair(TheResult.viewports, e.type, e.selector)
            /\ Cardinality(places) > 2

(***************************************************************************)
(* C9.  In a report, every entry carries the severity and the suggested    *)
(* fix of the first observation of its pair in iteration order, whatever   *)
(* the later observations of the pair carry.                               *)
(***************************************************************************)
C9_FirstObservationWins ==
    Reported =>
        LET vrs == TheResult.viewports
            map == response.issueMap
        IN \A k \in 1..Len(map) :
             /\ map[k].severity = FirstObservation(vrs, map[k]).severity
             /\ map[k].suggestedFix = FirstObservation(vrs, map[k]).suggestedFix

\* a pair whose last observation differs in severity from its first
C9_Witness ==
    /\ Reported
    /\ \E k \in 1..Len(response.issueMap) :
         LET e == response.issueMap[k]
             places == PlacesOfPair(TheResult.viewports, e.type, e.selector)
         IN \E p \in places :
              /\ \A q \in places : p = q \/ Earlier(q, p)
              /\ ObservationAt(TheResult.viewports, p).severity # e.severity

(***************************************************************************)
(* C10.  As claimed: in a report, no pixel literal (digits followed by     *)
(* "px") is left in an entry's description, and every observation merged   *)
(* into the entry whose description differs from the first one's only in   *)
(* its numbers normalizes to the entry's description.                      *)
(***************************************************************************)
\* a text with each run of digits replaced by one mark
RECURSIVE WithoutNumbers(_)
WithoutNumbers(t) ==
    IF t = <<>> THEN <<>>
    ELSE LET d == DigitRun(t) IN
         IF d = 0 THEN <<Head(t)>> \o WithoutNumbers(Tail(t))
         ELSE <<"#">> \o WithoutNumbers(SubSeq(t, d + 1, Len(t)))

HasPixelLiteral(t) ==
    \E k \in 1..(Len(t) - 2) : IsDigit(t[k]) /\ t[k + 1] = "p" /\ t[k + 2] = "x"

C10_MagnitudesNormalizeAlike ==
    Reported =>
        LET vrs == TheResult.viewports
            map == response.issueMap
        IN \A k \in 1..Len(map) :
             /\ ~HasPixelLiteral(map[k].description)
             /\ \A p \in PlacesOfPair(vrs, map[k].type, map[k].selector) :
                  WithoutNumbers(ObservationAt(vrs, p).description)
                      = WithoutNumbers(FirstObservation(vrs, map[k]).description)
                  => NormalizeDescription(ObservationAt(vrs, p).description)
                       = map[k].description

(***************************************************************************)
(* The specifications below exercise one routine each.  While they run, no *)
(* call of analyzeResponsiveDesign or captureScreenshots is in progress.   *)
(***************************************************************************)
run == <<caller, viewports, pc, browser, launches, page, idx, viewportResults,
         pending, outcome, response, started, inFlight, inspections, failure,
         closeCalls, steps, pages, shotBrowser, screenshots>>

NoRun ==
    /\ caller = "none"
    /\ viewports = <<>>
    /\ pc = "idle"
    /\ browser = NoBrowser
    /\ launches = 0
    /\ page = NoPage
    /\ idx = 0
    /\ viewportResults = <<>>
    /\ pending = NoCompletion
    /\ outcome = NoCompletion
    /\ response = NoResponse
    /\ started = <<>>
    /\ inFlight = {}
    /\ inspections = <<>>
    /\ failure = <<>>
    /\ closeCalls = 0
    /\ steps = <<>>
    /\ pages = <<>>
    /\ shotBrowser = NoBrowser
    /\ screenshots = <<>>

(***************************************************************************)
(* getTailwindBreakpoint on its own: a width is chosen, then classified    *)
(* together with the width one pixel below it.                             *)
(***************************************************************************)
MaxWidth == 1600

InitBreakpoint ==
    /\ NoRun
    /\ engine = NoEngine
    /\ probe \in {[phase |-> "width", width |-> w] : w \in 0..MaxWidth}

Classify ==
    /\ probe.phase = "width"
    /\ probe' = [phase |-> "breakpoint",
                 width |-> probe.width,
                 breakpoint |-> getTailwindBreakpoint(probe.width),
                 narrower |-> IF probe.width = 0 THEN <<>>
                              ELSE <<getTailwindBreakpoint(probe.width - 1)>>]
    /\ UNCHANGED <<run, engine>>

NextBreakpoint == Classify

SpecBreakpoint == InitBreakpoint /\ [][NextBreakpoint]_vars

\* the bands as the catalog documents them: each begins at its boundary
Bands ==
    << [name |-> "default (mobile)", from |-> 0],
       [name |-> "sm",  from |-> 640],
       [name |-> "md",  from |-> 768],
       [name |-> "lg",  from |-> 1024],
       [name |-> "xl",  from |-> 1280],
       [name |-> "2xl", from |-> 1536] >>

\* the position of a band's name in the order of the bands, 0 for no band
BandRank(name) ==
    IF \E k \in 1..Len(Bands) : Bands[k].name = name
    THEN CHOOSE k \in 1..Len(Bands) : Bands[k].name = name
    ELSE 0

\* the widest band that begins at or below the width
BandOf(w) ==
    LET k == CHOOSE i \in 1..Len(Bands) :
                 /\ Bands[i].from <= w
                 /\ \A j \in 1..Len(Bands) : Bands[j].from <= w => j <= i
    IN Bands[k].name

Classified == probe.phase = "breakpoint"

(***************************************************************************)
(* C11.  For every non-negative width, getTailwindBreakpoint answers the   *)
(* band the width lies in ("default (mobile)" below 640, "sm" below 768,   *)
(* "md" below 1024, "lg" below 1280, "xl" below 1536, "2xl" from there     *)
(* on); the answer never moves to an earlier band as the width grows, and  *)
(* each of 640, 768, 1024, 1280 and 1536 is the first width of its band.   *)
(***************************************************************************)
C11_BreakpointBands ==
    Classified =>
        /\ BandRank(probe.breakpoint) > 0
        /\ probe.breakpoint = BandOf(probe.width)
        /\ probe.narrower # <<>> =>
             /\ BandRank(probe.narrower[1]) <= BandRank(probe.breakpoint)
             /\ (\E k \in 2..Len(Bands) : Bands[k].from = probe.width)
                  <=> BandRank(probe.breakpoint) = BandRank(probe.narrower[1]) + 1
        /\ \A k \in 2..Len(Bands) :
             probe.width = Bands[k].from => probe.breakpoint = Bands[k].name

\* the width 1536 has been classified, as "2xl", and 1535 as "xl"
C11_Witness ==
    /\ Classified
    /\ probe.width = 1536
    /\ probe.breakpoint = "2xl"
    /\ probe.narrower = <<"xl">>

(***************************************************************************)
(* analyzeViewport's evaluation on its own: a page of up to MaxElements    *)
(* elements is laid out at a viewport, then inspected and the result       *)
(* stamped.  The elements sit on both sides of every threshold of the      *)
(* Inspector, half a pixel away where the geometry allows it.              *)
(***************************************************************************)
MaxElements == 2

\* banners reaching 5, 5.5, 50 and 50.5 px beyond the right edge
Banners(w) == {Hero(w, e) : e \in {Px(5), Px(5) + 1, Px(50), Px(50) + 1}}

\* the sizes next to the two touch-target thresholds
TouchSizes == {Px(30) - 1, Px(30), Px(44) - 1, Px(44)}

\* links that are small in one dimension, in both, or in none
Links ==
    {SmallLink(a, Px(44)) : a \in TouchSizes}
    \cup {SmallLink(Px(44), a) : a \in TouchSizes}
    \cup {SmallLink(Px(30) - 1, Px(44) - 1)}

\* small elements that are interactive by attribute, by tag, or not at all
Controls ==
    { [Block EXCEPT !.role = "button", !.width = Px(20), !.height = Px(20)],
      [Block EXCEPT !.onclick = TRUE, !.width = Px(40), !.height = Px(60)],
      [Block EXCEPT !.tagName = "button", !.width = Px(25), !.height = Px(25)],
      [Block EXCEPT !.width = Px(20), !.height = Px(20)] }

\* clipped and unclipped text, and a clipped element that is not text
Texts ==
    { Lead,
      [Lead EXCEPT !.overflow = "visible"],
      [Lead EXCEPT !.tagName = "div"],
      [Lead EXCEPT !.scrollWidth = 200],
      ClippedLink(Px(25), Px(20)) }

\* panels starting 10 and 10.5 px left of the viewport, and one wholly outside
Panels ==
    { Slide,
      [Slide EXCEPT !.left = -Px(10)],
      [Slide EXCEPT !.left = -Px(10) - 1],
      [Slide EXCEPT !.left = -Px(200)] }

\* elements the scan skips, each a defect if it were visible
Skipped(w) ==
    { Ghost(w),
      [SmallLink(Px(20), Px(20)) EXCEPT !.visibility = "hidden"],
      [ClippedLink(0, Px(20)) EXCEPT !.left = -Px(20)] }

\* one element with every defect at once
Sprawl(w) ==
    [ClippedLink(Px(w) + Px(100), Px(20)) EXCEPT !.left = -Px(20)]

Samples(w) ==
    Banners(w) \cup Links \cup Controls \cup Texts \cup Panels
    \cup Skipped(w) \cup {Sprawl(w)}

\* document.documentElement.scrollWidth - window.innerWidth
DocExcesses == {-15, 0, 1}

SamplePages(w) ==
    {Document(w, x, els) : x \in DocExcesses,
                           els \in UNION {[1..n -> Samples(w)] : n \in 0..MaxElements}}

InitInspect ==
    /\ NoRun
    /\ engine = NoEngine
    /\ \E viewport \in InputPool :
         probe \in {[phase |-> "page", viewport |-> viewport, document |-> doc]
                      : doc \in SamplePages(viewport.width)}

\* page.evaluate(...) returns and analyzeViewport stamps what it returned
InspectPage ==
    /\ probe.phase = "page"
    /\ LET raw == Inspector(probe.document)
       IN probe' = [phase |-> "analysis",
                    viewport |-> probe.viewport,
                    document |-> probe.document,
                    raw |-> raw,
                    analysis |-> MakeViewportAnalysis(probe.viewport, raw)]
    /\ UNCHANGED <<run, engine>>

NextInspect == InspectPage

SpecInspect == InitInspect /\ [][NextInspect]_vars

Analysed == probe.phase = "analysis"

\* the positions of the page-level observation in an issue sequence
PageLevelAt(issues) ==
    {j \in 1..Len(issues) : /\ issues[j].type = "horizontal-overflow"
                            /\ issues[j].selector = "body"
                            /\ issues[j].severity = "high"}

(***************************************************************************)
(* C12.  A ViewportAnalysis holds a page-level horizontal-overflow         *)
(* observation (selector "body", severity high) exactly when the           *)
(* document's scroll width exceeds the viewport's width, and then it holds *)
(* one, at the head of the issue sequence, whatever the elements gave.     *)
(***************************************************************************)
C12_PageLevelFirst ==
    Analysed =>
        LET issues == probe.analysis.issues
            wider  == probe.document.scrollWidth > probe.analysis.viewport.width
        IN /\ PageLevelAt(issues) # {} <=> wider
           /\ wider => PageLevelAt(issues) = {1}

\* a page wider than its viewport whose elements gave observations as well
C12_Witness ==
    /\ Analysed
    /\ probe.document.scrollWidth > probe.analysis.viewport.width
    /\ Len(probe.analysis.issues) >= 3
    /\ probe.analysis.issues[1].selector = "body"
    /\ probe.analysis.issues[2].selector # "body"

\* how far an element's right edge lies beyond the viewport, in 1/Scale px
ExcessOf(el, w) == el.left + el.width - Px(w)

\* the elements of a sequence that the Inspector does not skip
RECURSIVE Shown(_)
Shown(els) ==
    IF els = <<>> THEN <<>>
    ELSE (IF IsVisible(Head(els)) THEN <<Head(els)>> ELSE <<>>) \o Shown(Tail(els))

\* the element-level observations of one kind, in the order of the sequence
RECURSIVE ElementLevel(_, _)
ElementLevel(issues, type) ==
    IF issues = <<>> THEN <<>>
    ELSE (IF Head(issues).type = type /\ Head(issues).selector # "body"
          THEN <<Head(issues)>> ELSE <<>>) \o ElementLevel(Tail(issues), type)

\* the visible elements reaching more than 5px beyond the viewport's width
RECURSIVE Overflowing(_, _)
Overflowing(els, w) ==
    IF els = <<>> THEN <<>>
    ELSE (IF ExcessOf(Head(els), w) > Px(5) THEN <<Head(els)>> ELSE <<>>)
         \o Overflowing(Tail(els), w)

(***************************************************************************)
(* C13.  The element-level horizontal-overflow observations of an          *)
(* analysis are, one for one and in document order, the visible elements   *)
(* whose right edge lies more than 5px beyond the viewport's width; the    *)
(* observation is high when the excess is more than 50px and medium        *)
(* otherwise.  An excess of exactly 5px gives none, one of exactly 50px a  *)
(* medium one.                                                             *)
(***************************************************************************)
C13_ElementOverflow ==
    Analysed =>
        LET w    == probe.analysis.viewport.width
            over == Overflowing(Shown(probe.document.elements), w)
            obs  == ElementLevel(probe.analysis.issues, "horizontal-overflow")
        IN /\ Len(obs) = Len(over)
           /\ \A k \in 1..Len(obs) :
                /\ obs[k].element.rect.x = over[k].left
                /\ obs[k].element.rect.width = over[k].width
                /\ obs[k].element.tagName = over[k].tagName
                /\ obs[k].severity = IF ExcessOf(over[k], w) > Px(50)
                                     THEN "high" ELSE "medium"

\* a banner 5px too wide beside one 50px too wide: one medium observation
C13_Witness ==
    /\ Analysed
    /\ Len(probe.document.elements) = 2
    /\ ExcessOf(probe.document.elements[1], probe.analysis.viewport.width) = Px(5)
    /\ ExcessOf(probe.document.elements[2], probe.analysis.viewport.width) = Px(50)
    /\ IsVisible(probe.document.elements[1])
    /\ Len(probe.analysis.issues) = 1
    /\ probe.analysis.issues[1].type = "horizontal-overflow"
    /\ probe.analysis.issues[1].severity = "medium"

\* the visible interactive elements with a side below the given size (px)
RECURSIVE TargetsBelow(_, _)
TargetsBelow(els, size) ==
    IF els = <<>> THEN <<>>
    ELSE (IF /\ isInteractive(Head(els))
             /\ (Head(els).width < Px(size) \/ Head(els).height < Px(size))
          THEN <<Head(els)>> ELSE <<>>) \o TargetsBelow(Tail(els), size)

RECURSIVE OpsOfPass(_, _)
OpsOfPass(log, i) ==
    IF log = <<>> THEN <<>>
    ELSE (IF Head(log).index = i THEN <<Head(log)>> ELSE <<>>)
         \o OpsOfPass(Tail(log), i)

\* what one pass awaits, in order: geometry, settle delay, Inspector
PassOrder == <<"setViewport", "settle", "evaluate">>

(***************************************************************************)
(* C15.  In one viewport pass the Inspector is evaluated at most once, and *)
(* only after that viewport's geometry has been applied to the page and    *)
(* the settle delay has completed; no operation of a pass happens twice    *)
(* and no pass is taken up again, so a run that returns has evaluated the  *)
(* Inspector exactly once for each viewport.                               *)
(***************************************************************************)
C15_InspectorOncePerPass ==
    /\ \A k \in 1..Len(steps) - 1 : steps[k].index <= steps[k + 1].index
    /\ \A i \in 1..Len(viewports) :
         LET ops == OpsOfPass(steps, i)
         IN /\ Len(ops) <= Len(PassOrder)
            /\ \A k \in 1..Len(ops) :
                 /\ ops[k].op = PassOrder[k]
                 /\ k < Len(ops) => ops[k].ok
    /\ \A k \in 1..Len(inspections) :
         /\ inspections[k].settled
         /\ inspections[k].innerWidth = viewports[inspections[k].index].width
    /\ Returned =>
         \A i \in 1..Len(viewports) :
            /\ Len(OpsOfPass(steps, i)) = Len(PassOrder)
            /\ \A k \in 1..Len(PassOrder) : OpsOfPass(steps, i)[k].ok
            /\ Cardinality({k \in 1..Len(inspections) : inspections[k].index = i}) = 1

\* a run over three viewports has returned after nine awaited operations
C15_Witness ==
    /\ Returned
    /\ Len(viewports) = 3
    /\ Len(steps) = 9
    /\ steps[9] = [index |-> 3, op |-> "evaluate", ok |-> TRUE]

(***************************************************************************)
(* The module-level browser handle of dom-analyzer.ts under concurrent     *)
(* runs.  Each run calls getBrowser, opens its page on the instance it     *)
(* got, and ends; the signal handler calls closeBrowser and the process    *)
(* exits.  A step is the code between two awaits.  engine holds            *)
(*   handle    the instance the variable browser refers to, 0 for null,    *)
(*   live      the instances launched and running,                         *)
(*   launched  how many instances puppeteer.launch has made,               *)
(*   at, got   each run's position and the instance getBrowser gave it,    *)
(*   closer, closing   the position of cleanup and the instance it closes. *)
(***************************************************************************)
NumRuns == 2

Runs == 1..NumRuns

InitEngine ==
    /\ NoRun
    /\ probe = NoProbe
    /\ engine = [phase |-> "server", handle |-> 0, live |-> {}, launched |-> 0,
                 at |-> [r \in Runs |-> "idle"], got |-> [r \in Runs |-> 0],
                 closer |-> "idle", closing |-> 0]

Serving == engine.phase = "server" /\ engine.closer # "exited"

\* getBrowser up to its first await: if (!browser || !browser.connected)
CallGetBrowser(r) ==
    /\ Serving
    /\ engine.at[r] = "idle"
    /\ engine' = IF engine.handle = 0 \/ engine.handle \notin engine.live
                 THEN [engine EXCEPT !.at[r] = "launch"]
                 ELSE [engine EXCEPT !.at[r] = "newPage", !.got[r] = engine.handle]
    /\ UNCHANGED <<run, probe>>

\* browser = await puppeteer.launch(...); return browser
LaunchResolves(r) ==
    /\ Serving
    /\ engine.at[r] = "launch"
    /\ LET instance == engine.launched + 1
       IN engine' = [engine EXCEPT !.launched = instance,
                                   !.live = @ \cup {instance},
                                   !.handle = instance,
                                   !.got[r] = instance,
                                   !.at[r] = "newPage"]
    /\ UNCHANGED <<run, probe>>

LaunchRejects(r) ==
    /\ Serving
    /\ engine.at[r] = "launch"
    /\ engine' = [engine EXCEPT !.at[r] = "failed"]
    /\ UNCHANGED <<run, probe>>

\* const page = await browserInstance.newPage(), on a running instance
PageOpens(r) ==
    /\ Serving
    /\ engine.at[r] = "newPage"
    /\ engine.got[r] \in engine.live
    /\ engine' = [engine EXCEPT !.at[r] = "page"]
    /\ UNCHANGED <<run, probe>>

PageRejects(r) ==
    /\ Serving
    /\ engine.at[r] = "newPage"
    /\ engine' = [engine EXCEPT !.at[r] = "failed"]
    /\ UNCHANGED <<run, probe>>

\* the rest of the run, up to the return after page.close()
RunEnds(r) ==
    /\ Serving
    /\ engine.at[r] = "page"
    /\ engine' = [engine EXCEPT !.at[r] = "done"]
    /\ UNCHANGED <<run, probe>>

\* cleanup calls closeBrowser: if (browser) { await browser.close() ...
CloseBrowserCall ==
    /\ Serving
    /\ engine.closer = "idle"
    /\ engine' = IF engine.handle # 0
                 THEN [engine EXCEPT !.closer = "closing", !.closing = engine.handle]
                 ELSE [engine EXCEPT !.closer = "closed"]
    /\ UNCHANGED <<run, probe>>

\* ... browser.close() resolves; browser = null }
CloseBrowserResolves ==
    /\ Serving
    /\ engine.closer = "closing"
    /\ engine' = [engine EXCEPT !.live = @ \ {engine.closing},
                                !.handle = 0,
                                !.closer = "closed"]
    /\ UNCHANGED <<run, probe>>

\* process.exit(0): the process and the browsers it started are gone
Exit ==
    /\ Serving
    /\ engine.closer = "closed"
    /\ engine' = [engine EXCEPT !.live = {}, !.closer = "exited"]
    /\ UNCHANGED <<run, probe>>

NextEngine ==
    \/ \E r \in Runs : CallGetBrowser(r)
    \/ \E r \in Runs : LaunchResolves(r)
    \/ \E r \in Runs : LaunchRejects(r)
    \/ \E r \in Runs : PageOpens(r)
    \/ \E r \in Runs : PageRejects(r)
    \/ \E r \in Runs : RunEnds(r)
    \/ CloseBrowserCall
    \/ CloseBrowserResolves
    \/ Exit

SpecEngine == InitEngine /\ [][NextEngine]_vars

(***************************************************************************)
(* C16.  As long as cleanup has not begun, the engine is a singleton under *)
(* every interleaving of the runs: puppeteer.launch has made at most one   *)
(* instance, every run that got an instance got the same one, and every    *)
(* running instance is the one the module-level handle refers to, which is *)
(* the one closeBrowser would close.                                       *)
(***************************************************************************)
C16_SingletonEngine ==
    (engine.phase = "server" /\ engine.closer = "idle") =>
        /\ engine.launched <= 1
        /\ \A r1, r2 \in Runs :
             (engine.got[r1] # 0 /\ engine.got[r2] # 0)
                => engine.got[r1] = engine.got[r2]
        /\ \A instance \in engine.live : instance = engine.handle

(***************************************************************************)
(* C17.  The fix suggestions of a test_responsive report follow the defect *)
(* kinds that appeared in the run: when the run has at least one           *)
(* horizontal-overflow observation the overflow suggestion is listed, and  *)
(* when it has at least one touch-target observation the touch-target      *)
(* suggestion is listed, however many kinds appeared and however often.    *)
(***************************************************************************)
C17_FixesFollowKinds ==
    Reported =>
        LET kinds == KindsOf(TheResult.viewports)
        IN /\ "horizontal-overflow" \in kinds => Includes(response.fixes, "Overflow")
           /\ "touch-target" \in kinds => Includes(response.fixes, "Touch targets")

\* an observation without the stamp analyzeViewport adds
Unstamped(issue) ==
    [type |-> issue.type, description |-> issue.description,
     selector |-> issue.selector, severity |-> issue.severity,
     element |-> issue.element, suggestedFix |-> issue.suggestedFix]

(***************************************************************************)
(* C18.  Every observation of a ViewportAnalysis carries the name and the  *)
(* width of the viewport of that analysis, and the stamped observations    *)
(* are those the Inspector returned, as many and in the same order.        *)
(***************************************************************************)
C18_StampedInOrder ==
    Analysed =>
        LET va == probe.analysis
        IN /\ va.viewport = probe.viewport
           /\ Len(va.issues) = Len(probe.raw.issues)
           /\ \A j \in 1..Len(va.issues) :
                /\ va.issues[j].viewport = va.viewport.name
                /\ va.issues[j].viewportWidth = va.viewport.width
                /\ Unstamped(va.issues[j]) = probe.raw.issues[j]

\* an analysis at the 640px viewport with three different observations
C18_Witness ==
    /\ Analysed
    /\ probe.viewport.width = 640
    /\ Len(probe.raw.issues) = 3
    /\ probe.raw.issues[1].type # probe.raw.issues[2].type
    /\ probe.raw.issues[2].type # probe.raw.issues[3].type
    /\ probe.analysis.issues[3].viewport = "sm (Tailwind)"

\* how many observations of an issue sequence are of the given kind
CountOfType(issues, type) ==
    Cardinality({j \in 1..Len(issues) : issues[j].type = type})

(***************************************************************************)
(* C20.  The metrics of a ViewportAnalysis agree with its issue sequence:  *)
(* overflowingElements is the number of horizontal-overflow observations   *)
(* without the page-level "body" one, truncatedText is the number of       *)
(* text-overflow observations, and hasHorizontalScroll is true exactly     *)
(* when documentWidth is greater than viewportWidth.                       *)
(***************************************************************************)
C20_MetricsAgree ==
    Analysed =>
        LET issues  == probe.analysis.issues
            metrics == probe.analysis.metrics
        IN /\ metrics.overflowingElements
                = CountOfType(issues, "horizontal-overflow")
                  - Cardinality(PageLevelAt(issues))
           /\ metrics.truncatedText = CountOfType(issues, "text-overflow")
           /\ metrics.hasHorizontalScroll
                <=> metrics.documentWidth > metrics.viewportWidth
           /\ metrics.documentWidth = probe.document.scrollWidth
           /\ metrics.viewportWidth = probe.analysis.viewport.width

\* a page one pixel too wide with an overflowing banner and a clipped paragraph
C20_Witness ==
    /\ Analysed
    /\ probe.analysis.metrics.hasHorizontalScroll
    /\ probe.analysis.metrics.documentWidth = probe.analysis.metrics.viewportWidth + 1
    /\ probe.analysis.metrics.overflowingElements = 1
    /\ probe.analysis.metrics.truncatedText = 1
    /\ Len(probe.analysis.issues) = 3

(***************************************************************************)
(* captureScreenshots of screenshot.ts: for each viewport a page of its    *)
(* own is opened, driven through the awaited operations of the try block   *)
(* and closed in the finally block.  The calls of this function run        *)
(* beside those of analyzeResponsiveDesign in SpecPages.                   *)
(***************************************************************************)
\* the awaited operations of the try block, in order
ShotTry == <<"shot.setViewport", "shot.setCacheEnabled", "shot.goto",
             "shot.evaluate", "shot.screenshot">>

\* the error an awaited operation of the try block rejects with
ShotFailure(step) ==
    IF step = "shot.setViewport" THEN ViewportFailure
    ELSE IF step = "shot.goto" THEN NavigationFailure
    ELSE IF step = "shot.evaluate" THEN InspectionFailure
    ELSE Error("Protocol error: Target closed")

\* what captureScreenshots never touches: the state of dom-analyzer.ts
shotAside == <<browser, viewportResults, started, inFlight, inspections, steps,
               probe, engine>>

InitCapture ==
    /\ caller = "captureScreenshots"
    /\ viewports \in DirectInputs
    /\ pc = "shot.getBrowser"
    /\ browser = NoBrowser
    /\ launches = 0
    /\ page = NoPage
    /\ idx = 0
    /\ viewportResults = <<>>
    /\ pending = NoCompletion
    /\ outcome = NoCompletion
    /\ response = NoResponse
    /\ started = <<>>
    /\ inFlight = {}
    /\ inspections = <<>>
    /\ failure = <<>>
    /\ closeCalls = 0
    /\ steps = <<>>
    /\ pages = <<>>
    /\ shotBrowser = NoBrowser
    /\ screenshots = <<>>
    /\ probe = NoProbe
    /\ engine = NoEngine

\* for (let i = 0; i < viewports.length; i++), entered at position i with the
\* screenshots taken so far; after the last position: return screenshots
ShotLoopFrom(i, shots) ==
    IF i <= Len(viewports)
    THEN /\ idx' = i
         /\ pc' = "shot.newPage"
         /\ UNCHANGED <<outcome, response>>
    ELSE /\ Settle(Return(shots))
         /\ UNCHANGED idx

\* getBrowser of screenshot.ts: if (!browser || !browser.connected)
ShotGetBrowser ==
    /\ pc = "shot.getBrowser"
    /\ IF shotBrowser.instance = 0 \/ ~shotBrowser.connected
       THEN /\ pc' = "shot.launch"
            /\ UNCHANGED <<idx, outcome, response>>
       ELSE ShotLoopFrom(1, <<>>)
    /\ UNCHANGED <<shotAside, caller, viewports, launches, page, pending,
                   failure, closeCalls, pages, shotBrowser, screenshots>>

\* browser = await puppeteer.launch(...); const screenshots = []; the loop
ShotLaunchOk ==
    /\ pc = "shot.launch"
    /\ launches' = launches + 1
    /\ shotBrowser' = [instance |-> launches + 1, connected |-> TRUE]
    /\ screenshots' = <<>>
    /\ ShotLoopFrom(1, <<>>)
    /\ UNCHANGED <<shotAside, caller, viewports, page, pending, failure,
                   closeCalls, pages>>

ShotLaunchFail ==
    /\ pc = "shot.launch"
    /\ failure' = Noted(EngineUnavailable)
    /\ Settle(Throw(EngineUnavailable))
    /\ UNCHANGED <<shotAside, caller, viewports, launches, page, idx, pending,
                   closeCalls, pages, shotBrowser, screenshots>>

\* const page = await browserInstance.newPage()
ShotNewPageOk ==
    /\ pc = "shot.newPage"
    /\ page' = [NoPage EXCEPT !.state = "open", !.innerWidth = 800,
                              !.innerHeight = 600, !.settled = TRUE]
    /\ OpenPage
    /\ pending' = NoCompletion
    /\ pc' = ShotTry[1]
    /\ UNCHANGED <<shotAside, caller, viewports, launches, idx, outcome,
                   response, failure, closeCalls, shotBrowser, screenshots>>

\* newPage is awaited outside the try block: no page, no finally
ShotNewPageFail ==
    /\ pc = "shot.newPage"
    /\ failure' = Noted(NewPageFailure)
    /\ Settle(Throw(NewPageFailure))
    /\ UNCHANGED <<shotAside, caller, viewports, launches, page, idx, pending,
                   closeCalls, pages, shotBrowser, screenshots>>

\* setViewport, setCacheEnabled, goto or the scrolling evaluation resolves
ShotStepOk ==
    /\ \E k \in 1..Len(ShotTry) - 1 :
         /\ pc = ShotTry[k]
         /\ pc' = ShotTry[k + 1]
    /\ page' = IF pc = "shot.setViewport"
               THEN LET applied == AppliedGeometry(viewports[idx])
                    IN [page EXCEPT !.innerWidth = applied.innerWidth,
                                    !.innerHeight = applied.innerHeight]
               ELSE IF pc = "shot.goto" THEN [page EXCEPT !.url = Url]
               ELSE page
    /\ UNCHANGED <<shotAside, caller, viewports, launches, idx, pending,
                   outcome, response, failure, closeCalls, pages, shotBrowser,
                   screenshots>>

\* an awaited operation of the try block rejects: catch logs and rethrows,
\* control passes to finally
ShotStepFail ==
    /\ pc \in Range(ShotTry)
    /\ pending' = Throw(ShotFailure(pc))
    /\ failure' = Noted(ShotFailure(pc))
    /\ pc' = "shot.close"
    /\ UNCHANGED <<shotAside, caller, viewports, launches, page, idx, outcome,
                   response, closeCalls, pages, shotBrowser, screenshots>>

\* page.screenshot resolves; screenshots.push({viewport, dataUrl, timestamp})
ShotScreenshotOk ==
    /\ pc = "shot.screenshot"
    /\ screenshots' = Append(screenshots,
                             [viewport |-> viewports[idx],
                              dataUrl |-> "data:image/png;base64," \o "iVBORw0KGgo"])
    /\ pc' = "shot.close"
    /\ UNCHANGED <<shotAside, caller, viewports, launches, page, idx, pending,
                   outcome, response, failure, closeCalls, pages, shotBrowser>>

\* finally { await page.close() }: the rethrown error leaves the function,
\* or the loop goes on
ShotCloseOk ==
    /\ pc = "shot.close"
    /\ closeCalls' = closeCalls + 1
    /\ page' = [page EXCEPT !.state = "closed"]
    /\ ClosePage("closed")
    /\ IF pending.kind = "throw"
       THEN /\ Settle(pending)
            /\ UNCHANGED idx
       ELSE ShotLoopFrom(idx + 1, screenshots)
    /\ UNCHANGED <<shotAside, caller, viewports, launches, pending, failure,
                   shotBrowser, screenshots>>

\* finally { await page.close() } rejects: its error leaves the function
ShotCloseFail ==
    /\ pc = "shot.close"
    /\ closeCalls' = closeCalls + 1
    /\ \E after \in {"open", "closed"} :
         /\ page' = [page EXCEPT !.state = after]
         /\ ClosePage(after)
    /\ failure' = Noted(CloseFailure)
    /\ Settle(Throw(CloseFailure))
    /\ UNCHANGED <<shotAside, caller, viewports, launches, idx, pending,
                   shotBrowser, screenshots>>

NextCapture ==
    \/ ShotGetBrowser
    \/ ShotLaunchOk
    \/ ShotLaunchFail
    \/ ShotNewPageOk
    \/ ShotNewPageFail
    \/ ShotStepOk
    \/ ShotStepFail
    \/ ShotScreenshotOk
    \/ ShotCloseOk
    \/ ShotCloseFail

\* a call of analyzeResponsiveDesign or a call of captureScreenshots
InitPages == Init \/ InitCapture

NextPages == Next \/ NextCapture

SpecPages == InitPages /\ [][NextPages]_vars

\* the call has returned or thrown
Ended == pc = "done"

(***************************************************************************)
(* C19.  (as stated)  Every page opened by analyzeResponsiveDesign or by   *)
(* captureScreenshots has been closed, exactly once, when the call has     *)
(* returned or thrown, whatever failed on the way: no page is open after   *)
(* the call has ended.                                                     *)
(***************************************************************************)
C19_EveryPageClosed ==
    /\ \A k \in 1..Len(pages) : pages[k].closeCalls <= 1
    /\ Ended => \A k \in 1..Len(pages) :
                   /\ pages[k].closeCalls = 1
                   /\ pages[k].state = "closed"

(***************************************************************************)
(* C19.  (amended)  page.close() is called exactly once on every page      *)
(* opened by analyzeResponsiveDesign or by captureScreenshots before the   *)
(* call returns or throws, whatever failed on the way, and never twice; a  *)
(* page is opened only when the pages before it are closed; a page is open *)
(* after the call has ended only if its own page.close() rejected, and     *)
(* then the call has thrown that rejection.                                *)
(***************************************************************************)
C19_CloseCalledOnce ==
    /\ \A k \in 1..Len(pages) : pages[k].closeCalls <= 1
    /\ \A k \in 1..Len(pages) - 1 :
         pages[k].closeCalls = 1 /\ pages[k].state = "closed"
    /\ Ended => \A k \in 1..Len(pages) :
                   /\ pages[k].closeCalls = 1
                   /\ pages[k].state = "open" =>
                        /\ k = Len(pages)
                        /\ outcome = Throw(CloseFailure)

\* captureScreenshots has thrown what its second page's navigation rejected
\* with, both of its pages closed
C19_Witness ==
    /\ Ended
    /\ caller = "captureScreenshots"
    /\ Len(pages) = 2
    /\ outcome = Throw(NavigationFailure)
    /\ \A k \in 1..2 : pages[k] = [state |-> "closed", closeCalls |-> 1]

=============================================================================
